---------------------------- MODULE Spec2Model ----------------------------
(***************************************************************************)
(* A model of skills/scrapling/scripts/scrape_list.py: the field-spec      *)
(* parser, the field extractor, the page scraper, the output writer and    *)
(* the CLI driver.                                                         *)
(*                                                                         *)
(* Python strings are sequences of one-character strings.  A dict is the   *)
(* sequence of its <<key, value>> pairs in insertion order.  An            *)
(* Optional[str] is a record [kind, val] with kind "none" or "str"; an     *)
(* optional element is a sequence of length 0 or 1.                        *)
(*                                                                         *)
(* The scraping library (fetchers, css, css_first, find_similar, text,     *)
(* get) is outside the repository: a page is the record of the answers     *)
(* the library gives to the calls scrape_page makes on it, and an element  *)
(* is a small tree whose children answer css_first by their tag.           *)
(***************************************************************************)
EXTENDS Integers, Sequences, FiniteSets, TLC

VARIABLES
    pc,          \* position of the run
    fields_str,  \* parse_fields: its argument
    fields,      \* the field map (parse_fields' result; main's `fields`)
    element,     \* extract_field: its element argument
    selector,    \* extract_field: its selector argument
    result,      \* extract_field: what the call ended with
    args,        \* main: the parsed command line
    page,        \* scrape_page: the page the fetch returned
    elements,    \* scrape_page: the final match set
    items,       \* scrape_page: the result set
    stdout,      \* messages printed to standard output, in order
    stderr,      \* messages printed to standard error, in order
    file,        \* the output file: <<>> while none was written
    history,     \* the calls on the library and the file system, and how the
                 \* fetch ended, in order
    exit_code    \* the exit status of the process, -1 while it runs

vars == <<pc, fields_str, fields, element, selector, result, args, page,
          elements, items, stdout, stderr, file, history, exit_code>>

-----------------------------------------------------------------------------
(* Bounds of the model.                                                    *)

\* longest enumerated field-spec string
MaxLen == 6
\* most pieces an enumerated selector expression is built from
MaxPieces == 4
\* most children of an enumerated element
MaxKids == 2
\* most elements a library selection returns
MaxItems == 2

-----------------------------------------------------------------------------
(* Python str operations.                                                  *)

\* str.strip() with no argument strips these
Whitespace == {" ", "\t", "\n", "\r", "\f"}

\* the characters \w matches, among those the model's strings use
WordChars ==
    {"a", "b", "c", "d", "e", "f", "g", "h", "i", "j", "k", "l", "m", "n", "o",
     "p", "q", "r", "s", "t", "u", "v", "w", "x", "y", "z", "0", "1", "_"}

RECURSIVE Concat(_)
\* "".join(pieces)
Concat(pieces) ==
    IF pieces = <<>> THEN <<>> ELSE Head(pieces) \o Concat(Tail(pieces))

\* s.startswith(sub, i - 1), 1-based
StartsAt(s, sub, i) ==
    /\ i >= 1
    /\ i + Len(sub) - 1 <= Len(s)
    /\ SubSeq(s, i, i + Len(sub) - 1) = sub

RECURSIVE FindFrom(_, _, _)
\* 1-based s.find(sub, i - 1), 0 when absent
FindFrom(s, sub, i) ==
    IF i + Len(sub) - 1 > Len(s) THEN 0
    ELSE IF StartsAt(s, sub, i) THEN i
    ELSE FindFrom(s, sub, i + 1)

\* sub in s
Contains(s, sub) == FindFrom(s, sub, 1) # 0

RECURSIVE Split(_, _)
\* s.split(sep): always at least one part
Split(s, sep) ==
    LET i == FindFrom(s, sep, 1)
    IN  IF i = 0 THEN <<s>>
        ELSE <<SubSeq(s, 1, i - 1)>> \o Split(SubSeq(s, i + Len(sep), Len(s)), sep)

\* s.split(sep, 1) of an s that contains sep: the text before the first sep and
\* everything after it
Split1(s, sep) ==
    LET i == FindFrom(s, sep, 1)
    IN  <<SubSeq(s, 1, i - 1), SubSeq(s, i + Len(sep), Len(s))>>

RECURSIVE LStrip(_)
LStrip(s) ==
    IF s # <<>> /\ Head(s) \in Whitespace THEN LStrip(Tail(s)) ELSE s

RECURSIVE RStrip(_)
RStrip(s) ==
    IF s # <<>> /\ s[Len(s)] \in Whitespace THEN RStrip(SubSeq(s, 1, Len(s) - 1))
    ELSE s

\* s.strip()
Strip(s) == RStrip(LStrip(s))

RECURSIVE Replace(_, _)
\* s.replace(old, ""): the non-overlapping occurrences, left to right
Replace(s, old) ==
    IF Len(s) < Len(old) THEN s
    ELSE IF StartsAt(s, old, 1) THEN Replace(SubSeq(s, Len(old) + 1, Len(s)), old)
    ELSE <<Head(s)>> \o Replace(Tail(s), old)

-----------------------------------------------------------------------------
(* Python dict operations: a dict is its <<key, value>> pairs in insertion  *)
(* order.                                                                  *)

\* list(d.keys())
Keys(d) == [i \in 1..Len(d) |-> d[i][1]]

\* the position of key k in d, 0 when absent
KeyIndex(d, k) ==
    IF \E i \in 1..Len(d) : d[i][1] = k
    THEN CHOOSE i \in 1..Len(d) : d[i][1] = k
    ELSE 0

\* d[k] = v: an existing key keeps its place, a new key goes last
DictSet(d, k, v) ==
    IF KeyIndex(d, k) # 0
    THEN [d EXCEPT ![KeyIndex(d, k)] = <<k, v>>]
    ELSE Append(d, <<k, v>>)

\* d[k] of a key that is present
DictGet(d, k) == d[KeyIndex(d, k)][2]

-----------------------------------------------------------------------------
(* parse_fields                                                            *)

\* rsplit in place of split(":", 1): the pair is cut at its last colon
ParsePairAtLastColon(fs, field) ==
    IF Contains(field, <<":">>)
    THEN LET last == CHOOSE i \in 1..Len(field) :
                        /\ field[i] = ":"
                        /\ \A j \in (i + 1)..Len(field) : field[j] # ":"
         IN  DictSet(fs, Strip(SubSeq(field, 1, last - 1)),
                     Strip(SubSeq(field, last + 1, Len(field))))
    ELSE fs

\* one pass of the loop body: `if ":" in field: ...`
ParsePair(fs, field) ==
    IF Contains(field, <<":">>)
    THEN LET pair == Split1(field, <<":">>)
         IN  DictSet(fs, Strip(pair[1]), Strip(pair[2]))
    ELSE fs

RECURSIVE ParseLoop(_, _)
\* `for field in fields_str.split(","):`
ParseLoop(fs, parts) ==
    IF parts = <<>> THEN fs
    ELSE ParseLoop(ParsePair(fs, Head(parts)), Tail(parts))

parse_fields(s) == ParseLoop(<<>>, Split(s, <<",">>))

-----------------------------------------------------------------------------
(* The library's elements.  An element is [tag, text, attrs, kids]: attrs   *)
(* is a dict, kids the child elements in document order.  None is <<>> and  *)
(* an element that was found is <<e>>.                                      *)

NoneV == [kind |-> "none", val |-> <<>>]
StrV(s) == [kind |-> "str", val |-> s]
\* an AttributeError: an attribute of None was read
RaisedV == [kind |-> "raised", val |-> <<>>]

\* element.css_first(sel): the first child the selector matches (a child is
\* matched by its tag), or None
css_first(e, sel) ==
    LET hits == {i \in 1..Len(e.kids) : e.kids[i].tag = sel}
    IN  IF hits = {} THEN <<>>
        ELSE <<e.kids[CHOOSE i \in hits : \A j \in hits : i <= j]>>

\* el.text.strip()
text_strip(el) ==
    IF el = <<>> THEN RaisedV ELSE StrV(Strip(el[1].text))

\* el.get(attr): the attribute's value, None when the element has none
get(el, attr) ==
    IF el = <<>> THEN RaisedV
    ELSE IF KeyIndex(el[1].attrs, attr) = 0 THEN NoneV
    ELSE StrV(DictGet(el[1].attrs, attr))

-----------------------------------------------------------------------------
(* extract_field                                                           *)

TextMarker == <<":", ":", "t", "e", "x", "t">>
AttrMarker == <<":", ":", "a", "t", "t", "r", "(">>

RECURSIVE WordRun(_, _)
\* how many \w characters s holds from position i on
WordRun(s, i) ==
    IF i <= Len(s) /\ s[i] \in WordChars THEN 1 + WordRun(s, i + 1) ELSE 0

\* whether ::attr\((\w+)\) matches s at position i
AttrMatchAt(s, i) ==
    /\ StartsAt(s, AttrMarker, i)
    /\ WordRun(s, i + Len(AttrMarker)) >= 1
    /\ LET close == i + Len(AttrMarker) + WordRun(s, i + Len(AttrMarker))
       IN  close <= Len(s) /\ s[close] = ")"

\* the groups of a match that starts at position i
AttrGroups(s, i) ==
    <<SubSeq(s, 1, i - 1),
      SubSeq(s, i + Len(AttrMarker),
             i + Len(AttrMarker) + WordRun(s, i + Len(AttrMarker)) - 1)>>

\* a lazy (.*?) in place of (.*): the first marker that matches is taken
re_match_first(s) ==
    LET at == {i \in 1..Len(s) : AttrMatchAt(s, i)}
    IN  IF at = {} THEN <<>>
        ELSE <<AttrGroups(s, CHOOSE i \in at : \A j \in at : i <= j)>>

\* re.match(r"(.*)::attr\((\w+)\)", s): (.*) is greedy, so the last place where
\* the marker matches is taken; <<>> when there is no match, else <<groups>>
re_match(s) ==
    LET at == {i \in 1..Len(s) : AttrMatchAt(s, i)}
    IN  IF at = {} THEN <<>>
        ELSE <<AttrGroups(s, CHOOSE i \in at : \A j \in at : i >= j)>>

\* `return el.text.strip()` without `if el else None`
extract_field_unguarded(e, sel_expr) ==
    IF Contains(sel_expr, TextMarker)
    THEN LET sel == Replace(sel_expr, TextMarker)
             el == IF sel # <<>> THEN css_first(e, sel) ELSE <<e>>
         IN  text_strip(el)
    ELSE IF Contains(sel_expr, AttrMarker)
    THEN LET match == re_match(sel_expr)
         IN  IF match # <<>>
             THEN LET sel == match[1][1]
                      attr == match[1][2]
                      el == IF sel # <<>> THEN css_first(e, sel) ELSE <<e>>
                  IN  get(el, attr)
             ELSE NoneV
    ELSE text_strip(css_first(e, sel_expr))

extract_field(e, sel_expr) ==
    IF Contains(sel_expr, TextMarker)
    THEN LET sel == Replace(sel_expr, TextMarker)
             el == IF sel # <<>> THEN css_first(e, sel) ELSE <<e>>
         IN  IF el # <<>> THEN text_strip(el) ELSE NoneV
    ELSE IF Contains(sel_expr, AttrMarker)
    THEN LET match == re_match(sel_expr)
         IN  IF match # <<>>
             THEN LET sel == match[1][1]
                      attr == match[1][2]
                      el == IF sel # <<>> THEN css_first(e, sel) ELSE <<e>>
                  IN  IF el # <<>> THEN get(el, attr) ELSE NoneV
             ELSE NoneV
    ELSE LET el == css_first(e, sel_expr)
         IN  IF el # <<>> THEN text_strip(el) ELSE NoneV

-----------------------------------------------------------------------------
(* Inputs of the two pure functions.                                       *)

\* the value of the variables a specification does not use
Unused == <<>>

\* every string over chars of length at most n
Strings(chars, n) == UNION {[1..k -> chars] : k \in 0..n}

FieldChars == {"a", "b", ":", ",", " "}

\* "a:.x,b:.y::text,c:a::attr(href)"
FieldsExample ==
    <<"a", ":", ".", "x", ",",
      "b", ":", ".", "y", ":", ":", "t", "e", "x", "t", ",",
      "c", ":", "a", ":", ":", "a", "t", "t", "r", "(", "h", "r", "e", "f", ")">>

FieldSpecStrings == Strings(FieldChars, MaxLen) \cup {FieldsExample}

\* "a::attr(href)"
AttrExample ==
    <<"a", ":", ":", "a", "t", "t", "r", "(", "h", "r", "e", "f", ")">>

\* the pieces selector expressions are put together from
Pieces ==
    {<<"a">>, <<"-">>, <<")">>, TextMarker, AttrMarker,
     AttrMarker \o <<"a", ")">>}

SelectorExprs ==
    {Concat(ps) : ps \in Strings(Pieces, MaxPieces)} \cup {AttrExample}

Leaf(tag, text, attrs) ==
    [tag |-> tag, text |-> text, attrs |-> attrs, kids |-> <<>>]

\* the children elements are built from: an <a a="/x">, an <a> with no attribute
\* and a <b a="/b">
KidPool ==
    {Leaf(<<"a">>, <<" ", "x", " ">>, << <<<<"a">>, <<"/", "x">>>> >>),
     Leaf(<<"a">>, <<"y">>, <<>>),
     Leaf(<<"b">>, <<"z">>, << <<<<"a">>, <<"/", "b">>>> >>)}

\* an element containing <a href="/x">
ExampleElement ==
    [tag |-> <<"l", "i">>, text |-> <<>>, attrs |-> <<>>,
     kids |-> <<Leaf(<<"a">>, <<"g", "o">>,
                     << <<<<"h", "r", "e", "f">>, <<"/", "x">>>> >>)>>]

Elements ==
    {[tag |-> <<"l", "i">>, text |-> <<" ", "s", " ">>,
      attrs |-> << <<<<"a">>, <<"/", "s">>>> >>, kids |-> ks] :
        ks \in Strings(KidPool, MaxKids)}
    \cup {ExampleElement}

-----------------------------------------------------------------------------
(* parse_fields applied to every field-spec string.                        *)

InitParse ==
    /\ pc = "parse"
    /\ fields_str \in FieldSpecStrings
    /\ fields = <<>>
    /\ element = Unused /\ selector = Unused /\ result = Unused
    /\ args = Unused /\ page = Unused /\ elements = Unused /\ items = Unused
    /\ stdout = <<>> /\ stderr = <<>> /\ file = <<>> /\ history = <<>>
    /\ exit_code = -1

ParseFields ==
    /\ pc = "parse"
    /\ fields' = parse_fields(fields_str)
    /\ pc' = "parsed"
    /\ UNCHANGED <<fields_str, element, selector, result, args, page, elements,
                   items, stdout, stderr, file, history, exit_code>>

NextParse == ParseFields

SpecParse == InitParse /\ [][NextParse]_vars

-----------------------------------------------------------------------------
(* extract_field applied to every element and selector expression.         *)

InitExtract ==
    /\ pc = "extract"
    /\ element \in Elements
    /\ selector \in SelectorExprs
    /\ result = NoneV
    /\ fields_str = Unused /\ fields = Unused
    /\ args = Unused /\ page = Unused /\ elements = Unused /\ items = Unused
    /\ stdout = <<>> /\ stderr = <<>> /\ file = <<>> /\ history = <<>>
    /\ exit_code = -1

ExtractField ==
    /\ pc = "extract"
    /\ result' = extract_field(element, selector)
    /\ pc' = "extracted"
    /\ UNCHANGED <<fields_str, fields, element, selector, args, page, elements,
                   items, stdout, stderr, file, history, exit_code>>

NextExtract == ExtractField

SpecExtract == InitExtract /\ [][NextExtract]_vars

-----------------------------------------------------------------------------
(* The CLI run: main, scrape_page and save_output.                         *)

\* a printed line: its fixed text and the number it reports (0 when none)
Msg(text, n) == [text |-> text, n |-> n]

Element(ks) ==
    [tag |-> <<"l", "i">>, text |-> <<" ", "s", " ">>,
     attrs |-> << <<<<"a">>, <<"/", "s">>>> >>, kids |-> ks]

\* the item elements pages are made of: one holding an <a a="/x">, one empty
PageElements ==
    {Element(<<Leaf(<<"a">>, <<" ", "x", " ">>, << <<<<"a">>, <<"/", "x">>>> >>)>>),
     Element(<<>>)}

ElementLists == Strings(PageElements, MaxItems)

\* what the library answers for one fetched page: whether the page has a
\* status and which, page.css(item_selector, adaptive=adaptive),
\* page.css_first(item_selector) and page.find_similar(first, 0.7)
Pages ==
    [has_status : {TRUE}, status : {200, 399, 400, 404},
     css : ElementLists, css_first : {<<>>} \cup {<<e>> : e \in PageElements},
     find_similar : ElementLists]
    \cup
    [has_status : {FALSE}, status : {0},
     css : ElementLists, css_first : {<<>>} \cup {<<e>> : e \in PageElements},
     find_similar : ElementLists]

\* --fields values: "x", "t:a::text" and "t:a, l:a::attr(a),t : a::text"
MainFieldSpecs ==
    {<<"x">>,
     <<"t", ":", "a">> \o TextMarker,
     <<"t", ":", "a", ",", " ", "l", ":", "a">> \o AttrMarker \o <<"a", ")", ",">>
        \o <<"t", " ", ":", " ", "a">> \o TextMarker}

Args ==
    [fields : MainFieldSpecs, format : {"json", "csv"}, adaptive : BOOLEAN,
     fetcher : {"basic", "dynamic", "stealth"}]

\* get_fetcher: the fetcher class of a fetcher type
get_fetcher(fetcher_type) ==
    IF fetcher_type = "stealth" THEN "StealthyFetcher"
    ELSE IF fetcher_type = "dynamic" THEN "DynamicFetcher"
    ELSE "Fetcher"

\* the fetch retried once
fetch_call_retried(fetcher_type) ==
    IF fetcher_type = "stealth"
    THEN <<"StealthyFetcher.fetch", "StealthyFetcher.fetch">>
    ELSE IF fetcher_type = "dynamic"
    THEN <<"DynamicFetcher.fetch", "DynamicFetcher.fetch">>
    ELSE <<"Fetcher.get", "Fetcher.get">>

\* the calls scrape_page fetches the page with: one, by the fetcher type
fetch_call(fetcher_type) ==
    IF fetcher_type = "stealth" THEN <<"StealthyFetcher.fetch">>
    ELSE IF fetcher_type = "dynamic" THEN <<"DynamicFetcher.fetch">>
    ELSE <<"Fetcher.get">>

FetchCalls == {"StealthyFetcher.fetch", "DynamicFetcher.fetch", "Fetcher.get"}

\* `page.status > 400` in place of `>=`
status_warning_gt(pg) == pg.has_status /\ pg.status > 400

\* `hasattr(page, 'status') and page.status >= 400`
status_warning(pg) == pg.has_status /\ pg.status >= 400

\* the fallback tried whenever the primary selection is empty, adaptive or not
select_elements_always_fallback(pg, adaptive) ==
    LET primary == pg.css
    IN  IF primary = <<>>
        THEN IF pg.css_first # <<>>
             THEN [elements |-> pg.find_similar,
                   calls |-> <<"css", "css_first", "find_similar">>,
                   printed |-> <<Msg("Using find_similar fallback, found",
                                     Len(pg.find_similar))>>]
             ELSE [elements |-> primary, calls |-> <<"css", "css_first">>,
                   printed |-> <<>>]
        ELSE [elements |-> primary, calls |-> <<"css">>, printed |-> <<>>]

\* the primary selection and the find_similar fallback: the final match set,
\* the library calls made, the lines printed
select_elements(pg, adaptive) ==
    LET primary == pg.css
    IN  IF primary = <<>> /\ adaptive
        THEN IF pg.css_first # <<>>
             THEN [elements |-> pg.find_similar,
                   calls |-> <<"css", "css_first", "find_similar">>,
                   printed |-> <<Msg("Using find_similar fallback, found",
                                     Len(pg.find_similar))>>]
             ELSE [elements |-> primary, calls |-> <<"css", "css_first">>,
                   printed |-> <<>>]
        ELSE [elements |-> primary, calls |-> <<"css">>, printed |-> <<>>]

RECURSIVE item_loop_skip_none(_, _, _)
\* a field whose extraction yields nothing left out of the record
item_loop_skip_none(item, e, fs) ==
    IF fs = <<>> THEN item
    ELSE IF extract_field(e, Head(fs)[2]) = NoneV
    THEN item_loop_skip_none(item, e, Tail(fs))
    ELSE item_loop_skip_none(
             DictSet(item, Head(fs)[1], extract_field(e, Head(fs)[2])), e, Tail(fs))

RECURSIVE item_loop(_, _, _)
\* `for name, selector in fields.items(): item[name] = extract_field(...)`
item_loop(item, e, fs) ==
    IF fs = <<>> THEN item
    ELSE item_loop(DictSet(item, Head(fs)[1], extract_field(e, Head(fs)[2])),
                   e, Tail(fs))

RECURSIVE items_loop(_, _, _)
\* `for element in elements: ... items.append(item)`
items_loop(its, els, fs) ==
    IF els = <<>> THEN its
    ELSE items_loop(Append(its, item_loop(<<>>, Head(els), fs)), Tail(els), fs)

\* json.dump of one value: None is null, a str a string
json_value(v) ==
    IF v = NoneV THEN [type |-> "null", val |-> <<>>]
    ELSE [type |-> "string", val |-> v.val]

\* json.dump(items): an array of objects, the keys in dict order
json_dump(its) ==
    [format |-> "json",
     rows |-> [i \in 1..Len(its) |->
                  [j \in 1..Len(its[i]) |->
                      <<its[i][j][1], json_value(its[i][j][2])>>]]]

\* the cell csv.writer writes for one value: None is the empty string
csv_cell(v) == IF v = NoneV THEN <<>> ELSE v.val

\* DictWriter's row of one record: a cell per fieldname, "" for a missing key
\* (a key outside fieldnames would raise; the records of a result set all
\* have the field map's keys, so none has one)
csv_row(fieldnames, item) ==
    [j \in 1..Len(fieldnames) |->
        IF KeyIndex(item, fieldnames[j]) = 0 THEN <<>>
        ELSE csv_cell(DictGet(item, fieldnames[j]))]

\* writerows(items[1:]) in place of writerows(items)
csv_dump_drop_first(its) ==
    [format |-> "csv",
     rows |-> <<Keys(its[1])>> \o
              [i \in 1..(Len(its) - 1) |-> csv_row(Keys(its[1]), its[i + 1])]]

\* writeheader() and writerows(items) with fieldnames=items[0].keys()
csv_dump(its) ==
    [format |-> "csv",
     rows |-> <<Keys(its[1])>> \o
              [i \in 1..Len(its) |-> csv_row(Keys(its[1]), its[i])]]

\* save_output: the file afterwards, and whether a file was opened for writing
save_output(its, format, old) ==
    IF format = "json"
    THEN [file |-> <<json_dump(its)>>, calls |-> <<"open">>]
    ELSE IF format = "csv" /\ its # <<>>
    THEN [file |-> <<csv_dump(its)>>, calls |-> <<"open">>]
    ELSE [file |-> old, calls |-> <<>>]

Init ==
    /\ pc = "main"
    /\ args \in Args
    /\ fields = <<>>
    /\ page = Unused /\ elements = <<>> /\ items = <<>>
    /\ stdout = <<>> /\ stderr = <<>> /\ file = <<>> /\ history = <<>>
    /\ exit_code = -1
    /\ fields_str = Unused /\ element = Unused /\ selector = Unused
    /\ result = Unused

\* `if not fields:` taken as `if fields is None:`, which never holds
main_rejects_never(fs) == FALSE

\* `if not fields:`
main_rejects(fs) == fs = <<>>

\* main up to the call of scrape_page: parse the fields, exit 1 without any, else
\* print the summary
MainStart ==
    /\ pc = "main"
    /\ fields' = parse_fields(args.fields)
    /\ IF main_rejects(fields')
       THEN /\ stderr' = Append(stderr, Msg("Error: No valid fields specified", 0))
            /\ exit_code' = 1
            /\ pc' = "exited"
            /\ UNCHANGED stdout
       ELSE /\ stdout' = stdout \o
                   <<Msg("Scraping", 0), Msg("Item selector", 0),
                     Msg("Fields", Len(fields'))>> \o
                   (IF args.adaptive THEN <<Msg("Adaptive mode: enabled", 0)>>
                    ELSE <<>>)
            /\ pc' = "scrape_page"
            /\ UNCHANGED <<stderr, exit_code>>
    /\ UNCHANGED <<fields_str, element, selector, result, args, page, elements,
                   items, file, history>>

\* scrape_page up to the fetch: get_fetcher (configuring the class when
\* adaptive) and the call of the fetcher
FetchCall ==
    /\ pc = "scrape_page"
    /\ history' = history \o
           (IF args.adaptive
            THEN <<get_fetcher(args.fetcher), "configure">> ELSE <<>>) \o
           fetch_call(args.fetcher)
    /\ pc' = "fetching"
    /\ UNCHANGED <<fields_str, fields, element, selector, result, args, page,
                   elements, items, stdout, stderr, file, exit_code>>

\* the fetch returns a page
FetchReturn ==
    /\ pc = "fetching"
    /\ page' \in Pages
    /\ history' = Append(history, "returned")
    /\ pc' = "fetched"
    /\ UNCHANGED <<fields_str, fields, element, selector, result, args,
                   elements, items, stdout, stderr, file, exit_code>>

\* the fetch raises: nothing in scrape_page or main catches it, and the
\* interpreter ends the process with a traceback and status 1
FetchRaise ==
    /\ pc = "fetching"
    /\ pc' = "uncaught"
    /\ exit_code' = 1
    /\ stderr' = Append(stderr, Msg("Traceback", 0))
    /\ history' = Append(history, "raised")
    /\ UNCHANGED <<fields_str, fields, element, selector, result, args, page,
                   elements, items, stdout, file>>

\* scrape_page after the fetch: the status check, the selection with its
\* fallback, the extraction loop
ScrapeBody ==
    /\ pc = "fetched"
    /\ LET sel == select_elements(page, args.adaptive)
       IN  /\ stderr' = stderr \o
                  (IF status_warning(page)
                   THEN <<Msg("Warning: HTTP response", page.status)>> ELSE <<>>)
           /\ history' = history \o sel.calls
           /\ stdout' = stdout \o sel.printed
           /\ elements' = sel.elements
           /\ items' = items_loop(<<>>, sel.elements, fields)
    /\ pc' = "scraped"
    /\ UNCHANGED <<fields_str, fields, element, selector, result, args, page,
                   file, exit_code>>

\* save_output called whatever the result set holds
main_saves_always(its) == TRUE

\* `if items:`
main_saves(its) == its # <<>>

\* main after scrape_page: save_output for a non-empty result set, else
\* "No items found"; then the normal end
MainFinish ==
    /\ pc = "scraped"
    /\ IF main_saves(items)
       THEN /\ file' = save_output(items, args.format, file).file
            /\ history' = history \o save_output(items, args.format, file).calls
            /\ stdout' = Append(stdout, Msg("Saved items", Len(items)))
            /\ pc' = "exited"
            /\ exit_code' = 0
            /\ UNCHANGED stderr
       ELSE /\ stdout' = Append(stdout, Msg("No items found", 0))
            /\ pc' = "exited"
            /\ exit_code' = 0
            /\ UNCHANGED <<file, history, stderr>>
    /\ UNCHANGED <<fields_str, fields, element, selector, result, args, page,
                   elements, items>>

Next ==
    \/ MainStart
    \/ FetchCall
    \/ FetchReturn
    \/ FetchRaise
    \/ ScrapeBody
    \/ MainFinish

Spec == Init /\ [][Next]_vars

-----------------------------------------------------------------------------
(* Claims about parse_fields (under SpecParse).                            *)

\* t is u without its leading and trailing whitespace
IsTrimOf(t, u) ==
    \E l \in 0..Len(u) :
        /\ l + Len(t) <= Len(u)
        /\ t = SubSeq(u, l + 1, l + Len(t))
        /\ \A m \in 1..l : u[m] \in Whitespace
        /\ \A m \in (l + Len(t) + 1)..Len(u) : u[m] \in Whitespace
        /\ t # <<>> => (t[1] \notin Whitespace /\ t[Len(t)] \notin Whitespace)

\* the comma-separated pairs of s that hold a colon: <<i, k, j>> when the pair
\* is s[i..j] and its first colon is s[k]
ColonPairs(s) ==
    {p \in (1..Len(s)) \X (1..Len(s)) \X (1..Len(s)) :
        /\ p[1] <= p[2] /\ p[2] <= p[3]
        /\ (p[1] = 1 \/ s[p[1] - 1] = ",")
        /\ (p[3] = Len(s) \/ s[p[3] + 1] = ",")
        /\ \A m \in p[1]..p[3] : s[m] # ","
        /\ s[p[2]] = ":"
        /\ \A m \in p[1]..(p[2] - 1) : s[m] # ":"}

\* the comma-separated pairs of s that hold no colon, by their first position
\* (Len(s) + 1 for an empty last pair)
ColonlessPairs(s) ==
    {i \in 1..(Len(s) + 1) :
        /\ (i = 1 \/ s[i - 1] = ",")
        /\ \A m \in i..Len(s) :
              (\A q \in i..m : s[q] # ",") => s[m] # ":"}

PairName(s, p) == SubSeq(s, p[1], p[2] - 1)
PairSelector(s, p) == SubSeq(s, p[2] + 1, p[3])

\* C1: parse_fields returns the mapping built from the comma-separated pairs
\* left to right: a pair with a colon is split at its first colon into name
\* and selector, both trimmed, and stored under the name; a pair without a
\* colon contributes nothing; of several pairs with one name the last one's
\* selector is kept; the names are unique and stand in the order of their
\* first pairs.  "a:.x,b:.y::text,c:a::attr(href)" yields
\* {a: ".x", b: ".y::text", c: "a::attr(href)"}.
C1_ParseFields ==
    pc = "parsed" =>
        LET s == fields_str
            ps == ColonPairs(s)
        IN  /\ \A e \in 1..Len(fields) :
                  \E p \in ps :
                      /\ IsTrimOf(fields[e][1], PairName(s, p))
                      /\ IsTrimOf(fields[e][2], PairSelector(s, p))
                      /\ \A q \in ps :
                            q[1] > p[1] => ~IsTrimOf(fields[e][1], PairName(s, q))
            /\ \A p \in ps :
                  \E e \in 1..Len(fields) : IsTrimOf(fields[e][1], PairName(s, p))
            /\ \A e, g \in 1..Len(fields) :
                  e < g =>
                      /\ fields[e][1] # fields[g][1]
                      /\ \E p \in ps :
                            /\ IsTrimOf(fields[e][1], PairName(s, p))
                            /\ \A q \in ps :
                                  IsTrimOf(fields[g][1], PairName(s, q)) => p[1] < q[1]
            /\ s = FieldsExample =>
                  fields = << <<<<"a">>, <<".", "x">>>>,
                              <<<<"b">>, <<".", "y", ":", ":", "t", "e", "x", "t">>>>,
                              <<<<"c">>, AttrExample>> >>

\* a parsed string with a pair that holds two colons, a pair without a colon
\* and two pairs of one name
C1_Witness ==
    /\ pc = "parsed"
    /\ ColonlessPairs(fields_str) # {}
    /\ Len(fields) >= 1
    /\ Cardinality(ColonPairs(fields_str)) > Len(fields)
    /\ \E p \in ColonPairs(fields_str) :
          \E m \in (p[2] + 1)..p[3] : fields_str[m] = ":"

-----------------------------------------------------------------------------
(* Claims about extract_field (under SpecExtract).                         *)

\* the expression holds the text marker / the attribute marker somewhere
HasTextMarker(x) == \E i \in 1..Len(x) : StartsAt(x, TextMarker, i)
HasAttrMarker(x) == \E i \in 1..Len(x) : StartsAt(x, AttrMarker, i)

\* the expression holds the attribute marker but nowhere a whole ::attr(NAME)
MalformedAttr(x) ==
    /\ HasAttrMarker(x)
    /\ ~\E i \in 1..Len(x) : \E n \in 1..Len(x) :
          /\ StartsAt(x, AttrMarker, i)
          /\ i + Len(AttrMarker) + n <= Len(x)
          /\ \A m \in (i + Len(AttrMarker))..(i + Len(AttrMarker) + n - 1) :
                x[m] \in WordChars
          /\ x[i + Len(AttrMarker) + n] = ")"

\* no child of e is matched by the selector sel
NoSubElement(e, sel) == \A k \in 1..Len(e.kids) : e.kids[k].tag # sel

\* the first child of e that sel matches (there is one)
FirstSubElement(e, sel) ==
    e.kids[CHOOSE k \in 1..Len(e.kids) :
              /\ e.kids[k].tag = sel
              /\ \A m \in 1..(k - 1) : e.kids[m].tag # sel]

\* C4: extract_field ends by returning a string or nothing and never raises;
\* it returns nothing whenever the sub-selector matches no sub-element (in
\* the text-marker form, the attribute-marker form and the plain form) and
\* whenever the attribute marker is malformed.
C4_ExtractNeverRaises ==
    pc = "extracted" =>
        /\ result.kind \in {"str", "none"}
        /\ (/\ HasTextMarker(selector)
            /\ Replace(selector, TextMarker) # <<>>
            /\ NoSubElement(element, Replace(selector, TextMarker)))
               => result = NoneV
        /\ (/\ ~HasTextMarker(selector)
            /\ ~HasAttrMarker(selector)
            /\ NoSubElement(element, selector))
               => result = NoneV
        /\ (/\ ~HasTextMarker(selector)
            /\ \E i \in 1..Len(selector) :
                  /\ AttrMatchAt(selector, i)
                  /\ \A j \in (i + 1)..Len(selector) : ~AttrMatchAt(selector, j)
                  /\ i > 1
                  /\ NoSubElement(element, SubSeq(selector, 1, i - 1)))
               => result = NoneV
        /\ MalformedAttr(selector) => result = NoneV

\* calls of each form whose sub-selector matched nothing, and a call with a
\* malformed attribute marker, have returned
C4_Witness ==
    /\ pc = "extracted"
    /\ ~HasTextMarker(selector)
    /\ MalformedAttr(selector)
    /\ element.kids # <<>>
    /\ result = NoneV

\* SEL and NAME of an expression of the form SEL::attr(NAME), NAME a run of
\* word characters: <<SEL, NAME>>, in a set that is empty for any other form
AttrForm(x) ==
    {<<SubSeq(x, 1, i - 1), SubSeq(x, i + Len(AttrMarker), Len(x) - 1)>> :
        i \in {j \in 1..Len(x) :
                  /\ StartsAt(x, AttrMarker, j)
                  /\ j + Len(AttrMarker) <= Len(x) - 1
                  /\ x[Len(x)] = ")"
                  /\ \A m \in (j + Len(AttrMarker))..(Len(x) - 1) :
                        x[m] \in WordChars}}

\* the element SEL selects: the element itself when SEL is empty, else the
\* first child SEL matches; <<>> when SEL matches none
Selected(e, sel) ==
    IF sel = <<>> THEN <<e>>
    ELSE IF NoSubElement(e, sel) THEN <<>>
    ELSE <<FirstSubElement(e, sel)>>

HasAttr(e, name) == \E p \in 1..Len(e.attrs) : e.attrs[p][1] = name
AttrValue(e, name) ==
    e.attrs[CHOOSE p \in 1..Len(e.attrs) : e.attrs[p][1] = name][2]

\* C5 as stated: for an expression SEL::attr(NAME) without a text marker,
\* extract_field returns the value of attribute NAME of the first sub-element
\* matching SEL (of the element itself when SEL is empty), and returns nothing
\* only when no sub-element matches SEL.
C5_Original ==
    (pc = "extracted" /\ ~HasTextMarker(selector)) =>
        \A f \in AttrForm(selector) :
            /\ Selected(element, f[1]) = <<>> => result = NoneV
            /\ Selected(element, f[1]) # <<>> =>
                  /\ result.kind = "str"
                  /\ HasAttr(Selected(element, f[1])[1], f[2])
                  /\ result.val = AttrValue(Selected(element, f[1])[1], f[2])

\* C5 amended: for an expression SEL::attr(NAME) without a text marker, NAME
\* a non-empty run of word characters, extract_field returns the value of
\* attribute NAME of the first sub-element matching SEL (of the element
\* itself when SEL is empty); it returns nothing exactly when no sub-element
\* matches SEL or the selected element has no attribute NAME.
\* "a::attr(href)" on an element containing <a href="/x"> returns "/x".
C5_AttrValue ==
    (pc = "extracted" /\ ~HasTextMarker(selector)) =>
        /\ \A f \in AttrForm(selector) :
              LET el == Selected(element, f[1])
              IN  IF el # <<>> /\ HasAttr(el[1], f[2])
                  THEN result = StrV(AttrValue(el[1], f[2]))
                  ELSE result = NoneV
        /\ (selector = AttrExample /\ element = ExampleElement)
              => result = StrV(<<"/", "x">>)

\* a call SEL::attr(NAME) has returned nothing although SEL matched a
\* sub-element: the sub-element has no attribute NAME
C5_Witness ==
    /\ pc = "extracted"
    /\ ~HasTextMarker(selector)
    /\ \E f \in AttrForm(selector) :
          /\ f[1] # <<>>
          /\ Selected(element, f[1]) # <<>>
          /\ ~HasAttr(Selected(element, f[1])[1], f[2])
    /\ result = NoneV

-----------------------------------------------------------------------------
(* Claims about the CLI run (under Spec).                                  *)

\* how many entries of seq lie in S
Count(seq, S) == Cardinality({i \in 1..Len(seq) : seq[i] \in S})

\* a line with this text was printed to the stream
Printed(stream, text) == \E i \in 1..Len(stream) : stream[i].text = text

Happened(event) == \E i \in 1..Len(history) : history[i] = event

\* scrape_page has returned its result set
Scraped == Happened("css")

\* C2: whenever the --fields value parses to an empty field map the run ends
\* with exit code 1 after printing an error message to standard error, before
\* any fetch is issued and without writing any output file.
C2_NoFieldsExit ==
    (pc # "main" /\ parse_fields(args.fields) = <<>>) =>
        /\ pc = "exited"
        /\ exit_code = 1
        /\ stderr = <<Msg("Error: No valid fields specified", 0)>>
        /\ history = <<>>
        /\ file = <<>>
        /\ stdout = <<>>

\* a run with no valid field has ended
C2_Witness ==
    /\ pc = "exited"
    /\ \A i \in 1..Len(args.fields) : args.fields[i] # ":"
    /\ exit_code = 1

\* C3: in every run whose page scrape returns an empty result set, for either
\* format, no output file is created or overwritten, "No items found" is
\* printed, and the run completes normally with exit code 0.
C3_EmptyResult ==
    (Scraped /\ items = <<>> /\ pc # "scraped") =>
        /\ pc = "exited"
        /\ exit_code = 0
        /\ file = <<>>
        /\ ~Happened("open")
        /\ stdout[Len(stdout)] = Msg("No items found", 0)
        /\ ~Printed(stdout, "Saved items")

\* a json run whose scrape found nothing has ended
C3_Witness ==
    /\ pc = "exited"
    /\ Scraped
    /\ items = <<>>
    /\ args.format = "json"

\* the final match set as the page's content alone decides it
MatchSet(pg, adaptive) ==
    IF pg.css # <<>> THEN pg.css
    ELSE IF adaptive /\ pg.css_first # <<>> THEN pg.find_similar
    ELSE <<>>

\* C6: a status >= 400 is non-fatal: a warning goes to standard error and
\* selection and extraction proceed as for a status below 400, the result set
\* depending on the page content only; no warning is emitted when the status
\* is below 400 or the page has no status.
C6_StatusNonFatal ==
    Scraped =>
        /\ (page.has_status /\ page.status >= 400) =>
              /\ stderr = <<Msg("Warning: HTTP response", page.status)>>
              /\ pc \in {"scraped", "exited"}
        /\ ~(page.has_status /\ page.status >= 400) => stderr = <<>>
        /\ elements = MatchSet(page, args.adaptive)
        /\ Len(items) = Len(MatchSet(page, args.adaptive))
        /\ \A i \in 1..Len(items) : \A k \in 1..Len(fields) :
              items[i][k][2] =
                  extract_field(MatchSet(page, args.adaptive)[i], fields[k][2])

\* a run on a page of status 400 has written its items
C6_Witness ==
    /\ pc = "exited"
    /\ Scraped
    /\ page.has_status /\ page.status = 400
    /\ items # <<>>
    /\ file # <<>>
    /\ exit_code = 0

\* C7: the find_similar fallback is attempted if and only if the primary
\* selection returned no element, adaptive mode is on and the re-selection of
\* a reference element found one.  With no element and adaptive mode off the
\* result set is empty and neither the re-selection nor the fallback is
\* attempted; a non-empty primary selection is the match set; when the
\* fallback is invoked the number of elements it found is reported and the
\* result set has one record per element it returned.
C7_Fallback ==
    Scraped =>
        /\ Happened("find_similar") <=>
              (page.css = <<>> /\ args.adaptive /\ page.css_first # <<>>)
        /\ Happened("css_first") <=> (page.css = <<>> /\ args.adaptive)
        /\ (page.css = <<>> /\ ~args.adaptive) =>
              (items = <<>> /\ elements = <<>>)
        /\ page.css # <<>> => elements = page.css
        /\ Happened("find_similar") =>
              /\ \E i \in 1..Len(stdout) :
                    stdout[i] = Msg("Using find_similar fallback, found",
                                    Len(page.find_similar))
              /\ elements = page.find_similar
              /\ Len(items) = Len(page.find_similar)
        /\ ~Happened("find_similar") =>
              ~Printed(stdout, "Using find_similar fallback, found")
        /\ Count(history, {"css"}) = 1
        /\ Count(history, {"css_first"}) <= 1
        /\ Count(history, {"find_similar"}) <= 1

\* the fallback was invoked and returned elements
C7_Witness ==
    /\ Scraped
    /\ Happened("find_similar")
    /\ Len(page.find_similar) >= 2
    /\ Len(items) >= 2

\* C8: for a non-empty result set, csv output is a header row equal to the
\* keys of the first record in their order, then exactly one row per record
\* in result-set order, each holding the record's values under the matching
\* header columns (a null value as an empty cell).
C8_CsvRows ==
    (pc = "exited" /\ args.format = "csv" /\ items # <<>>) =>
        /\ Len(file) = 1
        /\ file[1].format = "csv"
        /\ Len(file[1].rows) = Len(items) + 1
        /\ Len(file[1].rows[1]) = Len(items[1])
        /\ \A j \in 1..Len(items[1]) : file[1].rows[1][j] = items[1][j][1]
        /\ \A i \in 1..Len(items) :
              /\ Len(file[1].rows[i + 1]) = Len(file[1].rows[1])
              /\ \A j \in 1..Len(file[1].rows[1]) :
                    \E p \in 1..Len(items[i]) :
                        /\ items[i][p][1] = file[1].rows[1][j]
                        /\ file[1].rows[i + 1][j] =
                               (IF items[i][p][2].kind = "none" THEN <<>>
                                ELSE items[i][p][2].val)

\* a csv file of two different records of two fields was written
C8_Witness ==
    /\ pc = "exited"
    /\ args.format = "csv"
    /\ Len(items) >= 2
    /\ Len(items[1]) >= 2
    /\ items[1] # items[2]
    /\ Len(file) = 1

\* C9: the result set has exactly one record per element of the final match
\* set, in the elements' order, and every record has exactly the field map's
\* names as its keys, in field-map order, a field whose extraction yields
\* nothing being present with a null value.
C9_Records ==
    Scraped =>
        /\ Len(items) = Len(elements)
        /\ \A i \in 1..Len(items) :
              /\ Len(items[i]) = Len(fields)
              /\ \A k \in 1..Len(fields) :
                    /\ items[i][k][1] = fields[k][1]
                    /\ items[i][k][2].kind \in {"str", "none"}
                    /\ items[i][k][2] = extract_field(elements[i], fields[k][2])

\* a result set of two records of two fields, one of them with null values
C9_Witness ==
    /\ Scraped
    /\ Len(items) >= 2
    /\ Len(fields) >= 2
    /\ \E i \in 1..Len(items) : \A k \in 1..Len(fields) : items[i][k][2] = NoneV
    /\ \E i \in 1..Len(items) : \A k \in 1..Len(fields) : items[i][k][2] # NoneV

\* the position of the first entry of history that is event, 0 when none
FirstAt(event) ==
    IF Happened(event)
    THEN CHOOSE i \in 1..Len(history) :
             history[i] = event /\ \A j \in 1..(i - 1) : history[j] # event
    ELSE 0

\* the parts of C10 other than the number of fetches: extraction starts only
\* after the fetch returned, the file is written at most once and only after
\* an extraction with a non-empty result set, and a failed fetch is followed
\* by no extraction and no write and ends the run abnormally
StrictSequence ==
    /\ Count(history, FetchCalls) <= 1
    /\ Count(history, {"returned", "raised"}) <= Count(history, FetchCalls)
    /\ Scraped =>
          /\ Happened("returned")
          /\ FirstAt("returned") < FirstAt("css")
          /\ \A i \in 1..FirstAt("returned") : history[i] \in FetchCalls =>
                i < FirstAt("returned")
    /\ Count(history, {"open"}) <= 1
    /\ Happened("open") =>
          /\ Scraped
          /\ FirstAt("css") < FirstAt("open")
          /\ items # <<>>
    /\ file # <<>> => Happened("open")
    /\ Happened("raised") =>
          /\ ~Scraped
          /\ ~Happened("open")
          /\ file = <<>>
          /\ items = <<>>
          /\ pc = "uncaught"
          /\ exit_code # 0

\* C10 as stated: every run issues exactly one fetch, never retried, and the
\* rest of the strict sequence holds.
C10_Original ==
    /\ StrictSequence
    /\ pc \in {"exited", "uncaught"} => Count(history, FetchCalls) = 1

\* C10 amended: a run issues at most one fetch, never retried: exactly one
\* when the field map is non-empty and none when it is empty (the run then
\* ends with exit code 1 before scrape_page is called); the rest of the
\* strict sequence holds.
C10_Sequence ==
    /\ StrictSequence
    /\ pc \in {"exited", "uncaught"} =>
          Count(history, FetchCalls) =
              (IF parse_fields(args.fields) = <<>> THEN 0 ELSE 1)

\* a run whose fetch failed has ended
C10_Witness ==
    /\ pc = "uncaught"
    /\ Happened("raised")
    /\ Count(history, FetchCalls) = 1

=============================================================================
